---- MODULE Spec2Model ----
(***************************************************************************)
(* Covariate assignment of cascade/input_data/configuration/builder.py:    *)
(* the sex-stratified interpolator assign_interpolated_covariate_values    *)
(* and the nearest-neighbour matcher                                       *)
(* covariate_to_measurements_nearest_favoring_same_year (Spec),            *)
(* compute_covariate_age_interval called alone (SpecInterval), the range   *)
(* converter convert_gbd_ids_to_dismod_values (SpecConvert) and            *)
(* assign_covariates over a configuration (SpecAssign).  The generator of  *)
(* fcn_nh.py is modelled next to the one of builder.py to compare them.    *)
(*                                                                         *)
(* Encoding.  Sex codes -0.5, 0, 0.5 are stored doubled (-1, 0, 1).  A     *)
(* mean of a range (lower + upper) / 2 is stored doubled (lower + upper).  *)
(* Floating point values are exact rationals [n, d]; NaN is its own value. *)
(* The value scipy's interp2d returns is kept symbolic: the fitted points  *)
(* and the query point.                                                    *)
(***************************************************************************)
EXTENDS Integers, Sequences, FiniteSets, TLC

VARIABLES measurements, covariates, pc, covar_at_dims, interpolators,
          covar_age_interval, cov_col, cov_index, covariate_column, err,
          with_ids_df, age_groups_df, dropped, missing,
          configuration, model_context, covariate_map

vars == <<measurements, covariates, pc, covar_at_dims, interpolators,
          covar_age_interval, cov_col, cov_index, covariate_column, err,
          with_ids_df, age_groups_df, dropped, missing,
          configuration, model_context, covariate_map>>

\* the state of a call of assign_covariates
assign_vars == <<configuration, model_context, covariate_map>>

\* the state of a call of convert_gbd_ids_to_dismod_values
convert_vars == <<with_ids_df, age_groups_df, dropped, missing>>

\* ------------------------------------------------------------------ bounds
MaxRecords == 2

MaxLabel == 1

MaxCovRows == 5

MaxAgeGroups == 4

MaxIdRows == 2

MaxConfigured == 3

\* --------------------------------------------------------------- sex codes
female == -1

male == 1

both == 0

SexCodes == {female, both, male}

sex_both == {both}

sex_fm == {female, male}

\* ------------------------------------------------------------ input domains
CovAges == {<<0, 10>>, <<30, 40>>}

CovTimes == {<<2000, 2001>>, <<2010, 2011>>}

\* record ranges <<age range, time range>>: mean age 10 ends the covariate age group
\* [0, 10] and lies between the covariate mean ages 5 and 35, mean age 20 lies in the
\* gap between the covariate age groups; mean time 2002.5 lies between the covariate
\* mean times and 1978.5 before them
InRange == <<<<0, 20>>, <<2002, 2003>>>>

InGap == <<<<18, 22>>, <<2002, 2003>>>>

BeforeTimes == <<<<0, 20>>, <<1978, 1979>>>>

\* a record of the year of the first covariate time
SameYear == <<<<0, 20>>, <<2000, 2001>>>>

CovValue(a, t, s) ==
    (IF a[1] = 0 THEN 4 ELSE IF a[1] = 15 THEN 16 ELSE 0) + (IF t[1] = 2010 THEN 8 ELSE 0)
        + (IF s = male THEN 2 ELSE IF s = both THEN 1 ELSE 0)

CovRow(a, t, s) ==
    [age_lower |-> a[1], age_upper |-> a[2], time_lower |-> t[1],
     time_upper |-> t[2], x_sex |-> s, mean_value |-> CovValue(a, t, s)]

\* every age group and time for both sexes; for female and male both times of the
\* second age group and the first time of the first; one age group between the two
\* others for female only, so that a cell can be present for one sex alone
CovUniverse ==
    {CovRow(a, t, both) : a \in CovAges, t \in CovTimes}
        \cup {CovRow(<<30, 40>>, t, s) : t \in CovTimes, s \in sex_fm}
        \cup {CovRow(<<0, 10>>, <<2000, 2001>>, s) : s \in sex_fm}
        \cup {CovRow(<<15, 25>>, <<2000, 2001>>, female)}

\* a table whose sex set is unsupported is rejected on its sex set alone; such
\* tables are enumerated with all their rows in one cell, one row per sex code
OneCell(T) ==
    \A r, q \in T : /\ r.age_lower = q.age_lower /\ r.age_upper = q.age_upper
                    /\ r.time_lower = q.time_lower /\ r.time_upper = q.time_upper

SupportedSexSet(S) == S = {both} \/ S = {female, male}

CovariateTables ==
    {T \in SUBSET CovUniverse :
        /\ Cardinality(T) <= MaxCovRows
        /\ SupportedSexSet({r.x_sex : r \in T}) \/ OneCell(T)}

RecCells ==
    {<<InRange, female>>, <<InRange, both>>, <<InRange, male>>,
     <<InGap, both>>, <<BeforeTimes, female>>, <<SameYear, female>>}

RecRow(l, c) ==
    [index |-> l, age_lower |-> c[1][1][1], age_upper |-> c[1][1][2],
     time_lower |-> c[1][2][1], time_upper |-> c[1][2][2], x_sex |-> c[2]]

LabelSeqs(n) ==
    {ls \in [1..n -> 0..MaxLabel] : \A i, j \in 1..n : i # j => ls[i] # ls[j]}

RecordTables ==
    UNION {{[i \in 1..n |-> RecRow(ls[i], cs[i])] :
                ls \in LabelSeqs(n), cs \in [1..n -> RecCells]} : n \in 0..MaxRecords}

\* ------------------------------------------------------------------ values
RECURSIVE GCD(_, _)
GCD(a, b) == IF b = 0 THEN a ELSE GCD(b, a % b)

Abs(x) == IF x < 0 THEN -x ELSE x

NaN == [k |-> "nan", n |-> 0, d |-> 1, pts |-> {}]

Num(n, d) ==
    LET s == IF d < 0 THEN -1 ELSE 1
        g == GCD(Abs(n), Abs(d))
    IN  [k |-> "num", n |-> (s * n) \div g, d |-> (s * d) \div g, pts |-> {}]

IsMissing(v) == v.k = "nan"

Mean2(lo, hi) == lo + hi

MeanAge2(r) == Mean2(r.age_lower, r.age_upper)

MeanTime2(r) == Mean2(r.time_lower, r.time_upper)

SetMin(S) == CHOOSE x \in S : \A y \in S : x <= y

SetMax(S) == CHOOSE x \in S : \A y \in S : y <= x

\* -------------------------------------------- compute_covariate_age_time_dimensions
AgeGroupsOf(covs) == {<<r.age_lower, r.age_upper>> : r \in covs}

TimeGroupsOf(covs) == {<<r.time_lower, r.time_upper>> : r \in covs}

compute_covariate_age_time_dimensions(covs) ==
    [age_1d |-> Cardinality(AgeGroupsOf(covs)) > 1,
     time_1d |-> Cardinality(TimeGroupsOf(covs)) > 1]

\* ------------------------------------------------ scipy.interpolate, as it is called
\* interp2d(x, y, z) on scattered points fits a linear spline (bisplrep, kx = ky = 1),
\* which needs (kx + 1) * (ky + 1) points; interp1d(x, y) needs two entries.
Point(r, x, t) == [x |-> x, t |-> t, v |-> r.mean_value]

interp2d(rows) ==
    IF Cardinality(rows) < 4
    THEN [kind |-> "scipy_error", axis |-> "none", pts |-> {}]
    ELSE [kind |-> "interp2d", axis |-> "age_time",
          pts |-> {Point(r, MeanAge2(r), MeanTime2(r)) : r \in rows}]

interp1d(rows, axis) ==
    IF Cardinality(rows) < 2
    THEN [kind |-> "scipy_error", axis |-> "none", pts |-> {}]
    ELSE [kind |-> "interp1d", axis |-> axis,
          pts |-> {Point(r, IF axis = "age" THEN MeanAge2(r) ELSE MeanTime2(r), 0) :
                      r \in rows}]

\* interp2d.__call__: the value of the fitted spline at (a, t), kept symbolic
Interp2dCall(f, a, t) == [k |-> "spline", n |-> a, d |-> t, pts |-> f.pts]

\* bounds_error=False, fill_value NaN: outside [min x, max x] the call returns NaN,
\* inside it interpolates linearly between the two neighbouring points.
Interp1dCall(f, q) ==
    LET X == {p.x : p \in f.pts}
    IN  IF q < SetMin(X) \/ q > SetMax(X)
        THEN NaN
        ELSE LET xhi == IF q = SetMin(X) THEN SetMin(X \ {SetMin(X)})
                                         ELSE SetMin({x \in X : x >= q})
                 xlo == SetMax({x \in X : x < xhi})
                 yhi == (CHOOSE p \in f.pts : p.x = xhi).v
                 ylo == (CHOOSE p \in f.pts : p.x = xlo).v
             IN  Num(ylo.n * yhi.d * (xhi - xlo)
                        + (yhi.n * ylo.d - ylo.n * yhi.d) * (q - xlo),
                     ylo.d * yhi.d * (xhi - xlo))

\* ------------------------------------------------ select_interpolator_based_on_at_dims
select_interpolator_per_stratum(rows, dims) ==
    LET own == compute_covariate_age_time_dimensions(rows)
    IN  IF own.age_1d /\ own.time_1d
        THEN interp2d(rows)
        ELSE IF own.age_1d /\ ~own.time_1d
        THEN interp1d(rows, "age")
        ELSE IF ~own.age_1d /\ own.time_1d
        THEN interp1d(rows, "time")
        ELSE [kind |-> "degenerate", axis |-> "none", pts |-> {}]

select_interpolator_no_else(rows, dims) ==
    IF dims.age_1d /\ dims.time_1d
    THEN interp2d(rows)
    ELSE IF dims.age_1d /\ ~dims.time_1d
    THEN interp1d(rows, "age")
    ELSE interp1d(rows, "time")

select_interpolator_based_on_at_dims(rows, dims) ==
    IF dims.age_1d /\ dims.time_1d
    THEN interp2d(rows)
    ELSE IF dims.age_1d /\ ~dims.time_1d
    THEN interp1d(rows, "age")
    ELSE IF ~dims.age_1d /\ dims.time_1d
    THEN interp1d(rows, "time")
    ELSE [kind |-> "degenerate", axis |-> "none", pts |-> {}]

\* --------------------------------------------- generate_covariate_interpolators_by_sex
StratumRow(r, v) ==
    [age_lower |-> r.age_lower, age_upper |-> r.age_upper,
     time_lower |-> r.time_lower, time_upper |-> r.time_upper, mean_value |-> v]

SameCell(f, m) ==
    /\ f.age_lower = m.age_lower /\ f.age_upper = m.age_upper
    /\ f.time_lower = m.time_lower /\ f.time_upper = m.time_upper

covariates_f(covs) == {StratumRow(r, Num(r.mean_value, 1)) : r \in {c \in covs : c.x_sex = female}}

covariates_m(covs) == {StratumRow(r, Num(r.mean_value, 1)) : r \in {c \in covs : c.x_sex = male}}

covariates_both_female_value(covs) ==
    {StratumRow(f, f.mean_value) :
        <<f, m>> \in {p \in covariates_f(covs) \X covariates_m(covs) : SameCell(p[1], p[2])}}

\* inner merge of the female and male rows on the four range columns;
\* mean_value is the mean of the two merged mean_value columns
covariates_both(covs) ==
    {StratumRow(f, Num(f.mean_value.n * m.mean_value.d + m.mean_value.n * f.mean_value.d,
                       2 * f.mean_value.d * m.mean_value.d)) :
        <<f, m>> \in {p \in covariates_f(covs) \X covariates_m(covs) : SameCell(p[1], p[2])}}

covars_sex(covs) == {r.x_sex : r \in covs}

NoInterp == [kind |-> "none", axis |-> "none", pts |-> {}]

NoInterpolators == [s \in SexCodes |-> NoInterp]

IsError(f) == f.kind \in {"scipy_error", "degenerate"}

IsBothOnly_no_len(S) == S \subseteq sex_both

\* len(covars_sex) and covars_sex.issubset(sex_both)
IsBothOnly(S) == S # {} /\ S \subseteq sex_both

IsSplitBySex_subset(S) == S \subseteq sex_fm

\* covars_sex.issubset(sex_fm) and covars_sex.issuperset(sex_fm)
IsSplitBySex(S) ==
    S \subseteq sex_fm /\ sex_fm \subseteq S

\* the strata in the order the code builds their interpolators
Strata(covs) ==
    IF IsBothOnly(covars_sex(covs))
    THEN <<{StratumRow(r, Num(r.mean_value, 1)) : r \in covs}>>
    ELSE <<covariates_f(covs), covariates_m(covs), covariates_both(covs)>>

generate_covariate_interpolators_by_sex(covs, dims) ==
    LET S == covars_sex(covs)
    IN  IF IsBothOnly(S)
        THEN LET interpolator == select_interpolator_based_on_at_dims(Strata(covs)[1], dims)
             IN  IF IsError(interpolator)
                 THEN [err |-> interpolator.kind, interpolators |-> NoInterpolators]
                 ELSE [err |-> "none", interpolators |-> [s \in SexCodes |-> interpolator]]
        ELSE IF IsSplitBySex(S)
        THEN LET interpolator_f == select_interpolator_based_on_at_dims(Strata(covs)[1], dims)
                 interpolator_m == select_interpolator_based_on_at_dims(Strata(covs)[2], dims)
                 interpolator_both == select_interpolator_based_on_at_dims(Strata(covs)[3], dims)
             IN  IF IsError(interpolator_f)
                 THEN [err |-> interpolator_f.kind, interpolators |-> NoInterpolators]
                 ELSE IF IsError(interpolator_m)
                 THEN [err |-> interpolator_m.kind, interpolators |-> NoInterpolators]
                 ELSE IF IsError(interpolator_both)
                 THEN [err |-> interpolator_both.kind, interpolators |-> NoInterpolators]
                 ELSE [err |-> "none",
                       interpolators |-> [s \in SexCodes |->
                            IF s = female THEN interpolator_f
                            ELSE IF s = male THEN interpolator_m ELSE interpolator_both]]
        ELSE [err |-> "unsupported_sex", interpolators |-> NoInterpolators]

\* ------------------------------------------- fcn_nh.py, the second implementation
fcn_nh_compute_covariate_age_time_dimensions_reversed(covs) ==
    [age_2d |-> ~(Cardinality({<<r.age_lower, r.age_upper>> : r \in covs}) > 1),
     time_2d |-> ~(Cardinality({<<r.time_lower, r.time_upper>> : r \in covs}) > 1)]

fcn_nh_compute_covariate_age_time_dimensions(covs) ==
    [age_2d |-> Cardinality({<<r.age_lower, r.age_upper>> : r \in covs}) > 1,
     time_2d |-> Cardinality({<<r.time_lower, r.time_upper>> : r \in covs}) > 1]

select_interpolator(rows, dims) ==
    IF dims.age_2d /\ dims.time_2d
    THEN interp2d(rows)
    ELSE IF dims.age_2d /\ ~dims.time_2d
    THEN interp1d(rows, "age")
    ELSE IF ~dims.age_2d /\ dims.time_2d
    THEN interp1d(rows, "time")
    ELSE [kind |-> "degenerate", axis |-> "none", pts |-> {}]

\* covariates_f.merge(covariates_m, on the four range columns, how="inner"), then
\* the mean of mean_value_x and mean_value_y
fcn_nh_covariates_both(covs) ==
    {StratumRow(p[1], Num(p[1].mean_value + p[2].mean_value, 2)) :
        p \in {q \in {c \in covs : c.x_sex = female} \X {c \in covs : c.x_sex = male} :
                  SameCell(q[1], q[2])}}

generate_covariate_interpolators(covs, dims) ==
    LET S == {r.x_sex : r \in covs}
        FirstError(fs) ==
            IF \E k \in 1..Len(fs) : IsError(fs[k])
            THEN fs[SetMin({k \in 1..Len(fs) : IsError(fs[k])})].kind
            ELSE "none"
    IN  IF S # {} /\ S \subseteq {both}
        THEN LET interpolator ==
                     select_interpolator({StratumRow(r, Num(r.mean_value, 1)) : r \in covs}, dims)
             IN  IF IsError(interpolator)
                 THEN [err |-> interpolator.kind, interpolators |-> NoInterpolators]
                 ELSE [err |-> "none", interpolators |-> [s \in SexCodes |-> interpolator]]
        ELSE IF S \subseteq {female, male} /\ {female, male} \subseteq S
        THEN LET built == <<select_interpolator(covariates_f(covs), dims),
                            select_interpolator(covariates_m(covs), dims),
                            select_interpolator(fcn_nh_covariates_both(covs), dims)>>
             IN  IF FirstError(built) # "none"
                 THEN [err |-> FirstError(built), interpolators |-> NoInterpolators]
                 ELSE [err |-> "none",
                       interpolators |-> [s \in SexCodes |->
                            IF s = female THEN built[1]
                            ELSE IF s = male THEN built[2] ELSE built[3]]]
        ELSE [err |-> "unsupported_sex", interpolators |-> NoInterpolators]

\* ------------------------------------------------------ compute_covariate_age_interval
IntervalUnion_open(I, a) ==
    LET hit == {i \in I : i[1] < a[2] /\ a[1] < i[2]}
    IN  (I \ hit) \cup {<<SetMin({i[1] : i \in hit} \cup {a[1]}),
                          SetMax({i[2] : i \in hit} \cup {a[2]})>>}

\* union of a set of disjoint closed intervals with the closed interval [a[1], a[2]]
IntervalUnion(I, a) ==
    LET hit == {i \in I : i[1] <= a[2] /\ a[1] <= i[2]}
    IN  (I \ hit) \cup {<<SetMin({i[1] : i \in hit} \cup {a[1]}),
                          SetMax({i[2] : i \in hit} \cup {a[2]})>>}

RECURSIVE UnionAll(_, _)
UnionAll(I, groups) ==
    IF groups = {} THEN I
    ELSE LET age == CHOOSE g \in groups : TRUE
         IN  UnionAll(IntervalUnion(I, age), groups \ {age})

compute_covariate_age_interval_joined(covs) ==
    UnionAll({}, AgeGroupsOf(IF IsSplitBySex(covars_sex(covs))
                             THEN covariates_both(covs) ELSE covs))

compute_covariate_age_interval(covs) == UnionAll({}, AgeGroupsOf(covs))

\* the loop iterates over a Python set of age groups, whose order is not specified:
\* the results of the loop over every order of the age groups
RECURSIVE AllUnions(_, _)
AllUnions(I, groups) ==
    IF groups = {} THEN {I}
    ELSE UNION {AllUnions(IntervalUnion(I, age), groups \ {age}) : age \in groups}

\* i in covar_age_interval, for a doubled mean age
InAgeInterval(mean2, I) == \E i \in I : 2 * i[1] <= mean2 /\ mean2 <= 2 * i[2]

\* ----------------------------------------- compute_interpolated_covariate_values_by_sex
RowsOfSex(meas, s) == SelectSeq(meas, LAMBDA r : r.x_sex = s)

Evaluate_age_for_female(f, dims, r) ==
    IF dims.age_1d /\ dims.time_1d THEN Interp2dCall(f, MeanAge2(r), MeanTime2(r))
    ELSE IF dims.age_1d \/ r.x_sex = female THEN Interp1dCall(f, MeanAge2(r))
    ELSE Interp1dCall(f, MeanTime2(r))

Evaluate(f, dims, r) ==
    IF dims.age_1d /\ dims.time_1d THEN Interp2dCall(f, MeanAge2(r), MeanTime2(r))
    ELSE IF dims.age_1d THEN Interp1dCall(f, MeanAge2(r))
    ELSE Interp1dCall(f, MeanTime2(r))

EvaluateAll(meas, f, dims) == [i \in 1..Len(meas) |-> Evaluate(f, dims, meas[i])]

IndexOf(meas) == [i \in 1..Len(meas) |-> meas[i].index]

\* pd.Series(cov_col, index=cov_index).sort_index(), for distinct labels
SortIndex(col, idx) ==
    [i \in 1..Len(idx) |->
        col[CHOOSE j \in 1..Len(idx) :
                Cardinality({k \in 1..Len(idx) : idx[k] < idx[j]}) = i - 1]]

MaskedColumn_swapped(meas, sorted, I) ==
    [i \in 1..Len(meas) |->
        [index |-> i - 1,
         value |-> IF InAgeInterval(MeanAge2(meas[i]), I) THEN NaN ELSE sorted[i]]]

MaskedColumn_unmasked(meas, sorted, I) ==
    [i \in 1..Len(meas) |-> [index |-> i - 1, value |-> sorted[i]]]

\* pd.Series(np.where(mask, covariate_column, nan)): positional, fresh RangeIndex
MaskedColumn(meas, sorted, I) ==
    [i \in 1..Len(meas) |->
        [index |-> i - 1,
         value |-> IF InAgeInterval(MeanAge2(meas[i]), I) THEN sorted[i] ELSE NaN]]

compute_interpolated_covariate_values_by_sex(meas, interps, dims, I) ==
    LET measurements_f == RowsOfSex(meas, female)
        measurements_m == RowsOfSex(meas, male)
        measurements_both == RowsOfSex(meas, both)
        col == EvaluateAll(measurements_f, interps[female], dims)
                 \o EvaluateAll(measurements_m, interps[male], dims)
                 \o EvaluateAll(measurements_both, interps[both], dims)
        idx == IndexOf(measurements_f) \o IndexOf(measurements_m)
                 \o IndexOf(measurements_both)
    IN  [cov_col |-> col, cov_index |-> idx,
         covariate_column |-> MaskedColumn(meas, SortIndex(col, idx), I)]

\* ------------------------------- covariate_to_measurements_nearest_favoring_same_year
\* the feature (mean age / 240, mean time, x_sex), scaled by 480 to stay in integers
AgeDivisor == 240

Feature(r) == <<MeanAge2(r), AgeDivisor * MeanTime2(r), AgeDivisor * r.x_sex>>

Distance2_no_sex(p, q) ==
    (p[1] - q[1]) * (p[1] - q[1]) + (p[2] - q[2]) * (p[2] - q[2])

Distance2(p, q) ==
    (p[1] - q[1]) * (p[1] - q[1]) + (p[2] - q[2]) * (p[2] - q[2])
        + (p[3] - q[3]) * (p[3] - q[3])

\* row order of the covariate tables of this model: by sex code, age range, time range
RowKey(c) == <<c.x_sex, c.age_lower, c.age_upper, c.time_lower, c.time_upper>>

RowBefore(a, b) ==
    \E k \in 1..5 : RowKey(a)[k] < RowKey(b)[k]
                        /\ \A j \in 1..(k - 1) : RowKey(a)[j] = RowKey(b)[j]

\* tree.query: a tree of at most leafsize points is one leaf, scanned in row order
\* with a strict comparison, so the first row at minimal distance is returned
Nearest(covs, r) ==
    LET near == {c \in covs : \A o \in covs :
                    Distance2(Feature(c), Feature(r)) <= Distance2(Feature(o), Feature(r))}
    IN  CHOOSE c \in near : \A o \in near \ {c} : RowBefore(c, o)

RECURSIVE SumOfValues(_)
SumOfValues(rows) ==
    IF rows = {} THEN 0
    ELSE LET c == CHOOSE x \in rows : TRUE IN c.mean_value + SumOfValues(rows \ {c})

covariate_to_measurements_nearest_averaging(meas, covs) ==
    [i \in 1..Len(meas) |->
        LET near == {c \in covs : \A o \in covs :
                        Distance2(Feature(c), Feature(meas[i]))
                            <= Distance2(Feature(o), Feature(meas[i]))}
        IN  [index |-> meas[i].index,
             value |-> Num(SumOfValues(near), Cardinality(near))]]

covariate_to_measurements_nearest_favoring_same_year(meas, covs) ==
    [i \in 1..Len(meas) |->
        [index |-> meas[i].index, value |-> Num(Nearest(covs, meas[i]).mean_value, 1)]]

\* ------------------------------------------------ assign_interpolated_covariate_values
\* model_context.input_data before assign_covariates: no covariate, no column
NoCovariates == [covariates |-> <<>>, columns |-> {}]

NoDims == [age_1d |-> FALSE, time_1d |-> FALSE]

Init ==
    /\ measurements \in RecordTables
    /\ covariates \in CovariateTables
    /\ pc = "call"
    /\ covar_at_dims = NoDims
    /\ interpolators = NoInterpolators
    /\ covar_age_interval = {}
    /\ cov_col = <<>>
    /\ cov_index = <<>>
    /\ covariate_column = <<>>
    /\ err = "none"
    /\ with_ids_df = <<>>
    /\ age_groups_df = {}
    /\ dropped = <<>>
    /\ missing = {}
    /\ configuration = <<>>
    /\ model_context = NoCovariates
    /\ covariate_map = <<>>

ComputeDimensions ==
    /\ pc = "call"
    /\ covar_at_dims' = compute_covariate_age_time_dimensions(covariates)
    /\ pc' = "dims"
    /\ UNCHANGED <<measurements, covariates, interpolators, covar_age_interval,
                   cov_col, cov_index, covariate_column, err>>
    /\ UNCHANGED convert_vars
    /\ UNCHANGED assign_vars

GenerateInterpolators_for_records ==
    /\ pc = "dims"
    /\ LET g == IF measurements = <<>>
                THEN [err |-> "none", interpolators |-> NoInterpolators]
                ELSE generate_covariate_interpolators_by_sex(covariates, covar_at_dims)
       IN  /\ interpolators' = g.interpolators
           /\ err' = g.err
           /\ pc' = IF g.err = "none" THEN "interpolators" ELSE "raised"
    /\ UNCHANGED <<measurements, covariates, covar_at_dims, covar_age_interval,
                   cov_col, cov_index, covariate_column>>
    /\ UNCHANGED convert_vars
    /\ UNCHANGED assign_vars

GenerateInterpolators ==
    /\ pc = "dims"
    /\ LET g == generate_covariate_interpolators_by_sex(covariates, covar_at_dims)
       IN  /\ interpolators' = g.interpolators
           /\ err' = g.err
           /\ pc' = IF g.err = "none" THEN "interpolators" ELSE "raised"
    /\ UNCHANGED <<measurements, covariates, covar_at_dims, covar_age_interval,
                   cov_col, cov_index, covariate_column>>
    /\ UNCHANGED convert_vars
    /\ UNCHANGED assign_vars

ComputeAgeInterval ==
    /\ pc = "interpolators"
    /\ covar_age_interval' = compute_covariate_age_interval(covariates)
    /\ pc' = "age_interval"
    /\ UNCHANGED <<measurements, covariates, covar_at_dims, interpolators,
                   cov_col, cov_index, covariate_column, err>>
    /\ UNCHANGED convert_vars
    /\ UNCHANGED assign_vars

ComputeValues_in_place ==
    /\ pc = "age_interval"
    /\ LET c == compute_interpolated_covariate_values_by_sex(
                    measurements, interpolators, covar_at_dims, covar_age_interval)
       IN  /\ cov_col' = c.cov_col
           /\ cov_index' = c.cov_index
           /\ covariate_column' = c.covariate_column
    /\ measurements' =
           SelectSeq(measurements,
                     LAMBDA r : InAgeInterval(MeanAge2(r), covar_age_interval))
    /\ pc' = "returned"
    /\ UNCHANGED <<covariates, covar_at_dims, interpolators, covar_age_interval, err>>
    /\ UNCHANGED convert_vars
    /\ UNCHANGED assign_vars

ComputeValues ==
    /\ pc = "age_interval"
    /\ LET c == compute_interpolated_covariate_values_by_sex(
                    measurements, interpolators, covar_at_dims, covar_age_interval)
       IN  /\ cov_col' = c.cov_col
           /\ cov_index' = c.cov_index
           /\ covariate_column' = c.covariate_column
    /\ pc' = "returned"
    /\ UNCHANGED <<measurements, covariates, covar_at_dims, interpolators,
                   covar_age_interval, err>>
    /\ UNCHANGED convert_vars
    /\ UNCHANGED assign_vars

\* the matcher; spatial.KDTree raises on an empty list of points
NearestNeighbour ==
    /\ pc = "call"
    /\ IF covariates = {}
       THEN /\ pc' = "matcher_raised"
            /\ err' = "scipy_error"
            /\ UNCHANGED covariate_column
       ELSE /\ pc' = "matched"
            /\ covariate_column' =
                   covariate_to_measurements_nearest_favoring_same_year(measurements, covariates)
            /\ UNCHANGED err
    /\ UNCHANGED <<measurements, covariates, covar_at_dims, interpolators,
                   covar_age_interval, cov_col, cov_index>>
    /\ UNCHANGED convert_vars
    /\ UNCHANGED assign_vars

Next ==
    \/ NearestNeighbour
    \/ ComputeDimensions
    \/ GenerateInterpolators
    \/ ComputeAgeInterval
    \/ ComputeValues

Spec == Init /\ [][Next]_vars

\* ------------------------------------- compute_covariate_age_interval, called alone
\* the age ranges of the function's documentation, [5, 10], [10, 15], [30, 35] and
\* [35, 80], with a range overlapping two of them, a range apart and a range
\* holding all others
AgeRanges ==
    {<<5, 10>>, <<10, 15>>, <<30, 35>>, <<35, 80>>, <<8, 12>>, <<16, 20>>, <<0, 100>>}

AgeRangeTables ==
    {{CovRow(a, <<2000, 2001>>, both) : a \in G} :
        G \in {H \in SUBSET AgeRanges : Cardinality(H) <= MaxAgeGroups}}

InitInterval ==
    /\ measurements = <<>>
    /\ covariates \in AgeRangeTables
    /\ pc = "interval_call"
    /\ covar_at_dims = NoDims
    /\ interpolators = NoInterpolators
    /\ covar_age_interval = {}
    /\ cov_col = <<>>
    /\ cov_index = <<>>
    /\ covariate_column = <<>>
    /\ err = "none"
    /\ with_ids_df = <<>>
    /\ age_groups_df = {}
    /\ dropped = <<>>
    /\ missing = {}
    /\ configuration = <<>>
    /\ model_context = NoCovariates
    /\ covariate_map = <<>>

UniteAgeGroups ==
    /\ pc = "interval_call"
    /\ covar_age_interval' \in AllUnions({}, AgeGroupsOf(covariates))
    /\ pc' = "interval_returned"
    /\ UNCHANGED <<measurements, covariates, covar_at_dims, interpolators,
                   cov_col, cov_index, covariate_column, err>>
    /\ UNCHANGED convert_vars
    /\ UNCHANGED assign_vars

NextInterval == UniteAgeGroups

SpecInterval == InitInterval /\ [][NextInterval]_vars

\* ------------------------------------------------ convert_gbd_ids_to_dismod_values
\* input rows <<age_group_id, year_id, sex_id>>; age group 999 is in no metadata
\* table and sex id 4 is no sex id
IdCells ==
    {<<1, 2000, 1>>, <<1, 2000, 2>>, <<2, 2010, 3>>, <<999, 2000, 3>>,
     <<1, 2010, 4>>, <<2, 2000, 1>>}

\* seq is a data column that tells the rows of the input table apart
IdRow(l, c, i) ==
    [index |-> l, seq |-> i, age_group_id |-> c[1], year_id |-> c[2], sex_id |-> c[3]]

\* the index labels of the input need not be increasing and may repeat
IdTables ==
    UNION {{[i \in 1..n |-> IdRow(ls[i], cs[i], i)] :
                ls \in [1..n -> 0..MaxLabel], cs \in [1..n -> IdCells]} : n \in 0..MaxIdRows}

\* metadata rows; the table may hold an age group id once, twice or not at all
MetaRows ==
    {[age_group_id |-> 1, age_group_years_start |-> 0, age_group_years_end |-> 5],
     [age_group_id |-> 1, age_group_years_start |-> 0, age_group_years_end |-> 1],
     [age_group_id |-> 2, age_group_years_start |-> 5, age_group_years_end |-> 10]}

AgeGroupTables == SUBSET MetaRows

sex_df_swapped ==
    {[x_sex |-> male, sex_id |-> 2], [x_sex |-> both, sex_id |-> 3],
     [x_sex |-> female, sex_id |-> 1]}

sex_df_any_sex ==
    {[x_sex |-> female, sex_id |-> 2], [x_sex |-> both, sex_id |-> 3],
     [x_sex |-> male, sex_id |-> 1], [x_sex |-> both, sex_id |-> 4]}

\* pd.DataFrame(dict(x_sex=[-0.5, 0, 0.5], sex_id=[2, 3, 1]))
sex_df ==
    {[x_sex |-> female, sex_id |-> 2], [x_sex |-> both, sex_id |-> 3],
     [x_sex |-> male, sex_id |-> 1]}

\* inner merge on age_group_id: <<row position, metadata row>>
aged(with_ids, age_groups) ==
    {p \in (1..Len(with_ids)) \X age_groups :
        p[2].age_group_id = with_ids[p[1]].age_group_id}

\* inner merge on sex_id: <<<<row position, metadata row>>, sex row>>
merged(with_ids, age_groups) ==
    {q \in aged(with_ids, age_groups) \X sex_df : q[2].sex_id = with_ids[q[1][1]].sex_id}

\* sort_values(by="original_index"): the merged rows in the order of the index
\* labels they came with; the default sort (quicksort) is not stable and the merges
\* do not promise an order, so rows with equal labels come in any order
reordered(with_ids, age_groups) ==
    LET M == merged(with_ids, age_groups)
    IN  {f \in [1..Cardinality(M) -> M] :
            /\ \A a, b \in 1..Cardinality(M) : a # b => f[a] # f[b]
            /\ \A a, b \in 1..Cardinality(M) :
                  a < b => with_ids[f[a][1][1]].index <= with_ids[f[b][1][1]].index}

\* reset_index, the two time columns, drop and rename
DismodRow(with_ids, q, k) ==
    [index |-> k - 1, seq |-> with_ids[q[1][1]].seq, sex_id |-> with_ids[q[1][1]].sex_id,
     x_sex |-> q[2].x_sex,
     age_lower |-> q[1][2].age_group_years_start,
     age_upper |-> q[1][2].age_group_years_end,
     time_lower |-> with_ids[q[1][1]].year_id,
     time_upper |-> with_ids[q[1][1]].year_id + 1]

convert_gbd_ids_to_dismod_values_unchecked(with_ids, age_groups) ==
    {[err |-> "none", missing |-> {},
      dropped |-> [k \in 1..Len(f) |-> DismodRow(with_ids, f[k], k)]] :
        f \in reordered(with_ids, age_groups)}

\* the outcomes of a call: the InputDataError with its set of missing age groups,
\* or a returned table
convert_gbd_ids_to_dismod_values(with_ids, age_groups) ==
    IF Cardinality(merged(with_ids, age_groups)) # Len(with_ids)
    THEN {[err |-> "input_data",
           missing |-> {with_ids[i].age_group_id : i \in 1..Len(with_ids)}
                           \ {g.age_group_id : g \in age_groups},
           dropped |-> <<>>]}
    ELSE {[err |-> "none", missing |-> {},
           dropped |-> [k \in 1..Len(f) |-> DismodRow(with_ids, f[k], k)]] :
             f \in reordered(with_ids, age_groups)}

InitConvert ==
    /\ measurements = <<>>
    /\ covariates = {}
    /\ pc = "convert_call"
    /\ covar_at_dims = NoDims
    /\ interpolators = NoInterpolators
    /\ covar_age_interval = {}
    /\ cov_col = <<>>
    /\ cov_index = <<>>
    /\ covariate_column = <<>>
    /\ err = "none"
    /\ with_ids_df \in IdTables
    /\ age_groups_df \in AgeGroupTables
    /\ dropped = <<>>
    /\ missing = {}
    /\ configuration = <<>>
    /\ model_context = NoCovariates
    /\ covariate_map = <<>>

ConvertGbdIds ==
    /\ pc = "convert_call"
    /\ \E o \in convert_gbd_ids_to_dismod_values(with_ids_df, age_groups_df) :
          /\ err' = o.err
          /\ missing' = o.missing
          /\ dropped' = o.dropped
          /\ pc' = IF o.err = "none" THEN "convert_returned" ELSE "convert_raised"
    /\ UNCHANGED <<measurements, covariates, covar_at_dims, interpolators,
                   covar_age_interval, cov_col, cov_index, covariate_column,
                   with_ids_df, age_groups_df>>
    /\ UNCHANGED assign_vars

NextConvert == ConvertGbdIds

SpecConvert == InitConvert /\ [][NextConvert]_vars

\* --------------------------------------------------------------- assign_covariates
\* configuration.country_covariate: one entry per covariate multiplier, so a
\* (country_covariate_id, transformation) pair may be listed more than once
CovariateIds == {26, 57}

\* keys of COVARIATE_TRANSFORMS used by the configurations
Transformations == {0, 1, 3}

TransformName(t) ==
    IF t = 0 THEN "identity" ELSE IF t = 1 THEN "log" ELSE "squared"

\* covariate_name_short of the download of a covariate id
CovariateName(id) == IF id = 26 THEN "mean_bmi" ELSE "ldi_pc"

Configurations ==
    UNION {[1..n -> CovariateIds \X Transformations] : n \in 0..MaxConfigured}

RECURSIVE SortedList(_)
\* list(sorted(S))
SortedList(S) ==
    IF S = {} THEN <<>> ELSE <<SetMin(S)>> \o SortedList(S \ {SetMin(S)})

RECURSIVE SeenIds(_)
\* keys of seen_covariate, in the order the dictionary received them
SeenIds(config) ==
    IF config = <<>> THEN <<>>
    ELSE LET before == SeenIds(SubSeq(config, 1, Len(config) - 1))
             id == config[Len(config)][1]
         IN  IF \E k \in 1..Len(before) : before[k] = id
             THEN before ELSE Append(before, id)

\* the transformations of an id kept as they are listed, repeats included
ListedTransformations(config, id) ==
    LET rows == SelectSeq(config, LAMBDA c : c[1] = id)
    IN  [k \in 1..Len(rows) |-> rows[k][2]]

unique_country_covariate_transform_listed(config) ==
    LET ids == SeenIds(config)
    IN  [k \in 1..Len(ids) |-> <<ids[k], ListedTransformations(config, ids[k])>>]

unique_country_covariate_transform(config) ==
    LET ids == SeenIds(config)
        seen_covariate(id) == {config[j][2] : j \in {i \in 1..Len(config) : config[i][1] = id}}
    IN  [k \in 1..Len(ids) |-> <<ids[k], SortedList(seen_covariate(ids[k]))>>]

\* Covariate(name, reference); serial tells one constructed object from another
Covariate(id, transform, serial) ==
    [name |-> <<CovariateName(id), TransformName(transform)>>, serial |-> serial]

\* covariate_map[(id, transform)] = covariate_obj
MapPut(map, key, value) ==
    [k \in DOMAIN map \cup {key} |-> IF k = key THEN value ELSE map[k]]

RECURSIVE TransformLoop(_, _, _, _)
\* for transform in transforms: append the covariate, map it, attach its column
TransformLoop(id, transforms, context, map) ==
    IF transforms = <<>> THEN [model_context |-> context, covariate_map |-> map]
    ELSE LET covariate_obj == Covariate(id, Head(transforms), Len(context.covariates) + 1)
         IN  TransformLoop(id, Tail(transforms),
                 [covariates |-> Append(context.covariates, covariate_obj),
                  columns |-> context.columns \cup {<<"x", covariate_obj.name>>}],
                 MapPut(map, <<id, Head(transforms)>>, covariate_obj))

RECURSIVE CovariateLoop(_, _, _, _)
\* for country_covariate_id, transforms in unique_country_covariate_transform(...);
\* unconvertible holds the ids whose download convert_gbd_ids_to_dismod_values rejects
CovariateLoop(todo, unconvertible, context, map) ==
    IF todo = <<>>
    THEN [err |-> "none", model_context |-> context, covariate_map |-> map]
    ELSE IF Head(todo)[1] \in unconvertible
    THEN [err |-> "input_data", model_context |-> context, covariate_map |-> <<>>]
    ELSE LET done == TransformLoop(Head(todo)[1], Head(todo)[2], context, map)
         IN  CovariateLoop(Tail(todo), unconvertible, done.model_context, done.covariate_map)

assign_covariates(context, config, unconvertible) ==
    CovariateLoop(unique_country_covariate_transform(config), unconvertible, context, <<>>)

InitAssign ==
    /\ measurements = <<>>
    /\ covariates = {}
    /\ pc = "assign_call"
    /\ covar_at_dims = NoDims
    /\ interpolators = NoInterpolators
    /\ covar_age_interval = {}
    /\ cov_col = <<>>
    /\ cov_index = <<>>
    /\ covariate_column = <<>>
    /\ err = "none"
    /\ with_ids_df = <<>>
    /\ age_groups_df = {}
    /\ dropped = <<>>
    /\ missing = {}
    /\ configuration \in Configurations
    /\ model_context = NoCovariates
    /\ covariate_map = <<>>

AssignCovariates ==
    /\ pc = "assign_call"
    /\ \E unconvertible \in SUBSET CovariateIds :
          LET o == assign_covariates(model_context, configuration, unconvertible)
          IN  /\ err' = o.err
              /\ model_context' = o.model_context
              /\ covariate_map' = o.covariate_map
              /\ pc' = IF o.err = "none" THEN "assign_returned" ELSE "assign_raised"
    /\ UNCHANGED <<measurements, covariates, covar_at_dims, interpolators,
                   covar_age_interval, cov_col, cov_index, covariate_column,
                   configuration>>
    /\ UNCHANGED convert_vars

NextAssign == AssignCovariates

SpecAssign == InitAssign /\ [][NextAssign]_vars

\* ====================================================================== claims
\* The entry of the record in row i is the entry in row i of the returned column.
Returned == pc = "returned"

Rows == 1..Len(measurements)

\* mean age inside the union of the closed covariate age intervals
InCoverage(r) ==
    \E c \in covariates : 2 * c.age_lower <= MeanAge2(r) /\ MeanAge2(r) <= 2 * c.age_upper

\* the reassembled column before the mask is applied (builder.py line 597)
Reassembled == SortIndex(cov_col, cov_index)

\* the row of the record whose interpolated value sort_index puts in row i
SourceRow(i) ==
    CHOOSE j \in Rows :
        Cardinality({k \in Rows : measurements[k].index < measurements[j].index}) = i - 1

\* C1: the column returned by assign_interpolated_covariate_values has one entry per
\* record, and its index labels are the RecordTable's index labels in row order.
C1_IndexPreserved ==
    Returned =>
        /\ Len(covariate_column) = Len(measurements)
        /\ \A i \in Rows : covariate_column[i].index = measurements[i].index

\* C2: in every interpolation mode a record whose mean age is outside the union of
\* the covariate age intervals receives a missing value, also when the interpolator
\* returned a number for it.
C2_CoverageMask ==
    Returned =>
        \A i \in Rows : ~InCoverage(measurements[i]) => IsMissing(covariate_column[i].value)

C2_Witness ==
    /\ Returned
    /\ covar_at_dims.age_1d /\ covar_at_dims.time_1d
    /\ \E i \in Rows :
          /\ ~InCoverage(measurements[i])
          /\ ~IsMissing(Reassembled[i])
          /\ IsMissing(covariate_column[i].value)

\* a 1-D query outside the range of the interpolator's points
OutOfRange(r) ==
    LET X == {p.x : p \in interpolators[r.x_sex].pts}
        q == IF covar_at_dims.age_1d THEN MeanAge2(r) ELSE MeanTime2(r)
    IN  q < SetMin(X) \/ q > SetMax(X)

OneDimensional == ~(covar_at_dims.age_1d /\ covar_at_dims.time_1d)

\* C3 as stated: every missing value of the returned column belongs to a record
\* whose mean age lies outside the age coverage.
C3_MissingOnlyOutsideCoverage ==
    Returned =>
        \A i \in Rows : IsMissing(covariate_column[i].value) => ~InCoverage(measurements[i])

\* C3 amended: evaluating the records never raises, and every missing value of the
\* returned column is in the row of a record whose mean age lies outside the age
\* coverage, or is the missing value a 1-D interpolator returned for the record
\* sort_index put in that row, whose query lies outside the range of the
\* interpolator's points; the mask does not overwrite that value.
C3_MissingIsMaskOrSentinel ==
    Returned =>
        /\ err = "none"
        /\ Len(covariate_column) = Len(measurements)
        /\ \A i \in Rows :
              IsMissing(covariate_column[i].value) =>
                  \/ ~InCoverage(measurements[i])
                  \/ OneDimensional /\ OutOfRange(measurements[SourceRow(i)])

C3_Witness ==
    /\ Returned
    /\ \E i \in Rows :
          /\ InCoverage(measurements[i])
          /\ IsMissing(covariate_column[i].value)
          /\ OutOfRange(measurements[i])
          /\ SourceRow(i) = i

\* mean time outside the range of the mean times of the covariate rows
TimeOutside(r) ==
    \/ \A c \in covariates : MeanTime2(r) < MeanTime2(c)
    \/ \A c \in covariates : MeanTime2(r) > MeanTime2(c)

\* C4: in time-only mode (one age group, several times) a record whose mean age is
\* inside the age coverage receives a non-missing value if its mean time lies within
\* the range of the covariate mean times and a missing value if it lies outside.
C4_TimeOnlyInRange ==
    Returned /\ ~covar_at_dims.age_1d /\ covar_at_dims.time_1d =>
        \A i \in Rows :
            InCoverage(measurements[i]) =>
                (IsMissing(covariate_column[i].value) <=> TimeOutside(measurements[i]))

\* C5: a record whose mean age is inside the age coverage and whose mean time lies
\* outside the time range of the covariate rows keeps the value the interpolator
\* produced for it; the mask does not replace it.
C5_TimeExtrapolationKept ==
    Returned =>
        \A i \in Rows :
            InCoverage(measurements[i]) /\ TimeOutside(measurements[i]) =>
                covariate_column[i].value =
                    Evaluate(interpolators[measurements[i].x_sex], covar_at_dims,
                             measurements[i])

\* the states after generate_covariate_interpolators_by_sex has run
Generated == pc \in {"interpolators", "age_interval", "returned", "raised"}

SexSet == {c.x_sex : c \in covariates}

\* C6: the interpolator accepts a CovariateTable only if its set of sex codes is
\* exactly {0} or exactly {-0.5, 0.5}; every other set raises the
\* unsupported-sex-coverage error and no column is returned.
C6_SexCoverage ==
    Generated =>
        /\ err = "unsupported_sex" <=> ~(SexSet = {both} \/ SexSet = {female, male})
        /\ err = "unsupported_sex" => pc = "raised" /\ covariate_column = <<>>

C6_Witness ==
    /\ pc = "raised"
    /\ err = "unsupported_sex"
    /\ SexSet = {female, both}
    /\ covariate_column = <<>>

SameRanges(r, q) ==
    /\ r.age_lower = q.age_lower /\ r.age_upper = q.age_upper
    /\ r.time_lower = q.time_lower /\ r.time_upper = q.time_upper

\* the record with index label l
RecordOf(l) == measurements[CHOOSE i \in Rows : measurements[i].index = l]

\* C7: if the covariate sex set is {0}, two records with the same age range and time
\* range and different sex codes get identical values, from the interpolators before
\* the mask and from the nearest-neighbour matcher.
C7_BothOnlySharing ==
    SexSet = {both} =>
        /\ Returned =>
              \A k, l \in 1..Len(cov_col) :
                  SameRanges(RecordOf(cov_index[k]), RecordOf(cov_index[l]))
                      => cov_col[k] = cov_col[l]
        /\ pc = "matched" =>
              \A i, j \in Rows :
                  SameRanges(measurements[i], measurements[j])
                      => covariate_column[i].value = covariate_column[j].value

C7_Witness ==
    /\ SexSet = {both}
    /\ Returned
    /\ \E k, l \in 1..Len(cov_col) :
          /\ RecordOf(cov_index[k]).x_sex = female
          /\ RecordOf(cov_index[l]).x_sex = both
          /\ SameRanges(RecordOf(cov_index[k]), RecordOf(cov_index[l]))
          /\ ~IsMissing(cov_col[k])
          /\ cov_col[k] = cov_col[l]

FemaleRows == {c \in covariates : c.x_sex = female}

MaleRows == {c \in covariates : c.x_sex = male}

\* the point a cell present for both sexes gives the synthesized stratum
JoinedPoint(f, m) ==
    [x |-> IF covar_at_dims.age_1d THEN f.age_lower + f.age_upper
                                   ELSE f.time_lower + f.time_upper,
     t |-> IF covar_at_dims.age_1d /\ covar_at_dims.time_1d
           THEN f.time_lower + f.time_upper ELSE 0,
     v |-> Num(f.mean_value + m.mean_value, 2)]

JoinedPoints ==
    {JoinedPoint(p[1], p[2]) : p \in {q \in FemaleRows \X MaleRows : SameRanges(q[1], q[2])}}

\* C8: under split-by-sex coverage the records with sex code 0 are evaluated on a
\* synthesized stratum whose cells are exactly the cells present for both female and
\* male, each with the average of the two mean values; other cells contribute nothing.
C8_SynthesizedBoth ==
    SexSet = {female, male} /\ pc \in {"interpolators", "age_interval", "returned"} =>
        /\ interpolators[both].pts = JoinedPoints
        /\ \A k \in 1..Len(cov_col) :
              RecordOf(cov_index[k]).x_sex = both =>
                  cov_col[k] = Evaluate([kind |-> interpolators[both].kind,
                                         axis |-> interpolators[both].axis,
                                         pts |-> JoinedPoints],
                                        covar_at_dims, RecordOf(cov_index[k]))

C8_Witness ==
    /\ SexSet = {female, male}
    /\ Returned
    /\ \E f \in FemaleRows \cup MaleRows :
          \A m \in FemaleRows \cup MaleRows : m # f => ~SameRanges(f, m)
    /\ \E f \in FemaleRows, m \in MaleRows :
          /\ SameRanges(f, m) /\ f.mean_value = 0 /\ m.mean_value = 2
          /\ \E p \in interpolators[both].pts : p.v = Num(1, 1)
    /\ \E k \in 1..Len(cov_col) :
          RecordOf(cov_index[k]).x_sex = both /\ ~IsMissing(cov_col[k])

AxisOf(age_varies, time_varies) ==
    IF age_varies /\ time_varies THEN "age_time"
    ELSE IF age_varies THEN "age"
    ELSE IF time_varies THEN "time" ELSE "none"

\* the dimensionality of a set of rows: more than one distinct age range, time range
AxisOfRows(rows) ==
    AxisOf(Cardinality({<<r.age_lower, r.age_upper>> : r \in rows}) > 1,
           Cardinality({<<r.time_lower, r.time_upper>> : r \in rows}) > 1)

SexOfStratum(k) == IF SexSet = {both} THEN both ELSE <<female, male, both>>[k]

\* C9 as stated: each stratum's interpolator follows the dimensionality of that
\* stratum's own rows, and the degenerate-domain error is raised for a stratum in
\* which neither age nor time varies.
C9_PerStratumDimensionality ==
    Generated /\ (SexSet = {both} \/ SexSet = {female, male}) =>
        /\ err = "degenerate" <=>
              \E k \in 1..Len(Strata(covariates)) : AxisOfRows(Strata(covariates)[k]) = "none"
        /\ err = "none" =>
              \A k \in 1..Len(Strata(covariates)) :
                  interpolators[SexOfStratum(k)].axis = AxisOfRows(Strata(covariates)[k])

\* C9 amended: the dimensionality is determined once, from all rows of the
\* CovariateTable; every stratum's interpolator is built for that dimensionality, and
\* the degenerate-domain error is raised exactly when neither age nor time varies
\* over the whole table.
C9_TableDimensionality ==
    Generated /\ (SexSet = {both} \/ SexSet = {female, male}) =>
        /\ err = "degenerate" <=> AxisOfRows(covariates) = "none"
        /\ err = "none" =>
              \A s \in SexCodes : interpolators[s].axis = AxisOfRows(covariates)

C9_Witness ==
    /\ pc = "raised"
    /\ SexSet = {female, male}
    /\ AxisOfRows(covariates) = "age"
    /\ \E k \in 1..3 : AxisOfRows(Strata(covariates)[k]) = "none"
    /\ err # "degenerate"

OneAgeOneTime ==
    /\ Cardinality({<<c.age_lower, c.age_upper>> : c \in covariates}) = 1
    /\ Cardinality({<<c.time_lower, c.time_upper>> : c \in covariates}) = 1

\* C10 as stated: with one distinct age range and one distinct time range the
\* interpolator raises the degenerate-domain error, whatever the RecordTable.
C10_DegenerateAlways ==
    Generated /\ OneAgeOneTime => pc = "raised" /\ err = "degenerate"

\* C10 amended: with one distinct age range and one distinct time range the
\* interpolator returns no column, whatever the RecordTable; it raises the
\* degenerate-domain error if the sex set is {0} or {-0.5, 0.5} and the
\* unsupported-sex-coverage error otherwise, the sex set being classified first.
C10_DegenerateAfterSexCheck ==
    Generated /\ OneAgeOneTime =>
        /\ pc = "raised"
        /\ covariate_column = <<>>
        /\ err = IF SexSet = {both} \/ SexSet = {female, male}
                 THEN "degenerate" ELSE "unsupported_sex"

C10_Witness ==
    /\ pc = "raised"
    /\ err = "degenerate"
    /\ OneAgeOneTime
    /\ SexSet = {female, male}
    /\ Len(measurements) = 2

\* C11: the entry returned for a record is computed from that record: the value of
\* the interpolator of the record's own sex category at the record's own mean age
\* and mean time, replaced by a missing value when the record's own mean age is
\* outside the age coverage, whatever the order of the index labels.
C11_OwnRecord ==
    Returned =>
        \A i \in Rows :
            covariate_column[i].value =
                IF InAgeInterval(MeanAge2(measurements[i]), covar_age_interval)
                THEN Evaluate(interpolators[measurements[i].x_sex], covar_at_dims,
                              measurements[i])
                ELSE NaN

\* the covariate rows of the stratum that evaluates records of sex code s
StratumRowsOf(s) ==
    IF SexSet = {both} THEN covariates
    ELSE IF s = female THEN FemaleRows
    ELSE IF s = male THEN MaleRows
    ELSE {f \in FemaleRows : \E m \in MaleRows : SameRanges(f, m)}

InStratumCoverage(r) ==
    \E c \in StratumRowsOf(r.x_sex) :
        2 * c.age_lower <= MeanAge2(r) /\ MeanAge2(r) <= 2 * c.age_upper

\* C12 as stated: a record whose mean age is outside the age intervals of the rows
\* of the stratum that evaluates it receives a missing value.
C12_StratumCoverage ==
    Returned =>
        \A i \in Rows :
            ~InStratumCoverage(measurements[i]) => IsMissing(covariate_column[i].value)

\* C12 amended: the age coverage is the union of the closed age intervals of all
\* rows of the CovariateTable, whatever their sex code; a row of the returned column
\* keeps its reassembled value exactly when the mean age of its record lies in the
\* age interval of some covariate row, of whatever stratum.
C12_TableCoverage ==
    Returned =>
        \A i \in Rows :
            covariate_column[i].value =
                IF InCoverage(measurements[i]) THEN Reassembled[i] ELSE NaN

C12_Witness ==
    /\ Returned
    /\ SexSet = {female, male}
    /\ \E i \in Rows :
          /\ InCoverage(measurements[i])
          /\ ~InStratumCoverage(measurements[i])
          /\ SourceRow(i) = i
          /\ ~IsMissing(covariate_column[i].value)

\* C13: compute_covariate_age_interval returns the union of the closed intervals
\* [age_lower, age_upper] of all covariate rows: a mean age is in the result exactly
\* when it is in the closed range of some row (endpoints included, gaps excluded),
\* overlapping or touching ranges are merged into one interval ([5, 10] and [10, 15]
\* into [5, 15]), and every order of uniting the ranges gives the same result.
C13_ClosedUnion ==
    pc = "interval_returned" =>
        /\ \A mean2 \in 0..200 :
              InAgeInterval(mean2, covar_age_interval) <=>
                  \E g \in AgeGroupsOf(covariates) : 2 * g[1] <= mean2 /\ mean2 <= 2 * g[2]
        /\ \A i, j \in covar_age_interval : i # j => i[2] < j[1] \/ j[2] < i[1]
        /\ AgeGroupsOf(covariates) = {<<5, 10>>, <<10, 15>>} => covar_age_interval = {<<5, 15>>}
        /\ covar_age_interval = compute_covariate_age_interval(covariates)

C13_Witness ==
    /\ pc = "interval_returned"
    /\ AgeGroupsOf(covariates) = {<<5, 10>>, <<10, 15>>, <<30, 35>>}
    /\ covar_age_interval = {<<5, 15>>, <<30, 35>>}
    /\ InAgeInterval(2 * 15, covar_age_interval)
    /\ ~InAgeInterval(2 * 20, covar_age_interval)

\* squared Euclidean distance between the features (mean age / 240, mean time,
\* sex code) of a covariate row and a record, multiplied by 480 * 480
FeatureDistance2(c, r) ==
    (c.age_lower + c.age_upper - r.age_lower - r.age_upper)
            * (c.age_lower + c.age_upper - r.age_lower - r.age_upper)
        + 57600 * (c.time_lower + c.time_upper - r.time_lower - r.time_upper)
            * (c.time_lower + c.time_upper - r.time_lower - r.time_upper)
        + 57600 * (c.x_sex - r.x_sex) * (c.x_sex - r.x_sex)

\* the covariate rows at minimal distance from record r
TiedRows(r) ==
    {c \in covariates :
        \A o \in covariates : FeatureDistance2(c, r) <= FeatureDistance2(o, r)}

Matched == pc = "matched"

ExampleRows ==
    {[age_lower |-> 0, age_upper |-> 10, time_lower |-> 2000, time_upper |-> 2001,
      x_sex |-> both, mean_value |-> 5],
     [age_lower |-> 0, age_upper |-> 10, time_lower |-> 2010, time_upper |-> 2011,
      x_sex |-> both, mean_value |-> 9]}

ExampleRecord ==
    [index |-> 0, age_lower |-> 0, age_upper |-> 10, time_lower |-> 2001,
     time_upper |-> 2002, x_sex |-> both]

SameYearRows(r) == {c \in covariates : MeanTime2(c) = MeanTime2(r)}

AgeDistance(c, r) == Abs(MeanAge2(c) - MeanAge2(r))

SexDistance(c, r) == Abs(c.x_sex - r.x_sex)

\* the rows the policy same year, then nearest age, then nearest sex allows for r
PolicyRows(r) ==
    IF SameYearRows(r) = {} THEN covariates
    ELSE {c \in SameYearRows(r) :
            \A o \in SameYearRows(r) :
                \/ AgeDistance(c, r) < AgeDistance(o, r)
                \/ AgeDistance(c, r) = AgeDistance(o, r)
                        /\ SexDistance(c, r) <= SexDistance(o, r)}

\* C15: the matcher prefers the same year, then the nearest age, then the nearest
\* sex: when rows of the record's year exist, the record gets the value of a row of
\* that year, of minimal age distance among them whatever the sex codes, and of
\* minimal sex distance among the rows of that year at that age distance.
C15_YearAgeSexPolicy ==
    Matched =>
        \A i \in Rows :
            \E c \in PolicyRows(measurements[i]) :
                covariate_column[i].value = Num(c.mean_value, 1)

\* the average of the mean_value of a set of rows
AverageValue(rows) == Num(SumOfValues(rows), Cardinality(rows))

CallEnded == pc \in {"matched", "matcher_raised", "returned", "raised"}

\* C20 as stated: with a CovariateTable without rows the matcher and the interpolator
\* raise an error that is neither the unsupported-sex-coverage error nor the
\* degenerate-domain error, and return no column.
C20_EmptyTableError ==
    CallEnded /\ covariates = {} =>
        /\ pc \in {"matcher_raised", "raised"}
        /\ err \notin {"none", "unsupported_sex", "degenerate"}
        /\ covariate_column = <<>>

\* C20 amended: with a CovariateTable without rows both calls raise and return no
\* column; the matcher fails while building the tree, the interpolator raises the
\* unsupported-sex-coverage error, the empty set of sex codes being neither {0} nor
\* {-0.5, 0.5}.
C20_EmptyTableRaises ==
    CallEnded /\ covariates = {} =>
        /\ pc \in {"matcher_raised", "raised"}
        /\ covariate_column = <<>>
        /\ pc = "matcher_raised" => err = "scipy_error"
        /\ pc = "raised" => err = "unsupported_sex"

C20_Witness ==
    /\ covariates = {}
    /\ pc = "raised"
    /\ err = "unsupported_sex"
    /\ Len(measurements) = 2
    /\ covariate_column = <<>>

Converted == pc = "convert_returned"

\* C17: convert_gbd_ids_to_dismod_values returns a table with the row count of the
\* input whose row k comes from row k of the input, whatever the index labels of
\* the input.
C17_RowOrderPreserved ==
    Converted =>
        /\ Len(dropped) = Len(with_ids_df)
        /\ \A k \in 1..Len(dropped) : dropped[k].seq = with_ids_df[k].seq

\* metadata with one row per age group id
OneRowPerId ==
    \A g, h \in age_groups_df : g.age_group_id = h.age_group_id => g = h

\* the age group ids of the input table that the metadata table does not hold
MissingAgeGroups ==
    {with_ids_df[i].age_group_id : i \in 1..Len(with_ids_df)}
        \ {g.age_group_id : g \in age_groups_df}

ConvertEnded == pc \in {"convert_returned", "convert_raised"}

\* every row of the input is a row of the returned table
NoRowDropped ==
    \A i \in 1..Len(with_ids_df) :
        \E k \in 1..Len(dropped) : dropped[k].seq = with_ids_df[i].seq

C19_ConvertedValues ==
    Converted =>
        \A k \in 1..Len(dropped) :
            \E i \in 1..Len(with_ids_df) :
                /\ dropped[k].seq = with_ids_df[i].seq
                /\ dropped[k].sex_id = with_ids_df[i].sex_id
                /\ with_ids_df[i].sex_id \in {1, 2, 3}
                /\ dropped[k].x_sex = (IF with_ids_df[i].sex_id = 1 THEN male
                                      ELSE IF with_ids_df[i].sex_id = 2 THEN female
                                      ELSE both)
                /\ dropped[k].time_lower = with_ids_df[i].year_id
                /\ dropped[k].time_upper = with_ids_df[i].year_id + 1
                /\ \E g \in age_groups_df :
                      /\ g.age_group_id = with_ids_df[i].age_group_id
                      /\ dropped[k].age_lower = g.age_group_years_start
                      /\ dropped[k].age_upper = g.age_group_years_end

C19_Witness ==
    /\ Converted
    /\ OneRowPerId
    /\ Len(dropped) = 2
    /\ with_ids_df[1].index < with_ids_df[2].index
    /\ with_ids_df[1] = IdRow(0, <<1, 2000, 2>>, 1)
    /\ with_ids_df[2] = IdRow(1, <<2, 2010, 3>>, 2)
    /\ dropped[1].x_sex = female /\ dropped[1].time_upper = 2001
    /\ dropped[1].age_lower = 0 /\ dropped[1].age_upper = 5
    /\ dropped[2].x_sex = both /\ dropped[2].time_lower = 2010
    /\ dropped[2].age_lower = 5 /\ dropped[2].age_upper = 10

\* no column, or a column with one entry for every record after a call has returned
NoPartialColumn ==
    \/ covariate_column = <<>>
    \/ /\ pc \in {"returned", "matched"}
       /\ Len(covariate_column) = Len(measurements)

\* C21: no step of a call of the matcher or of the interpolator changes the
\* RecordTable or the CovariateTable, whether the call returns or raises, and at
\* every point there is either no column or, after the call returned, a column with
\* one entry per record.
C21_SideEffectFree ==
    /\ []NoPartialColumn
    /\ [][measurements' = measurements /\ covariates' = covariates]_vars

\* the call raised after the interpolator of the female stratum had been built
C21_Witness ==
    /\ pc = "raised"
    /\ err = "scipy_error"
    /\ SexSet = {female, male}
    /\ ~IsError(select_interpolator_based_on_at_dims(Strata(covariates)[1], covar_at_dims))
    /\ Len(measurements) = 2
    /\ covariate_column = <<>>

\* C22: when assign_covariates has run over a configuration, exactly one
\* covariate has been appended for each distinct (country_covariate_id,
\* transformation) pair however often the pair is listed, the covariates of one
\* id are appended in one run and in increasing order of transformation, and
\* the lookup maps every configured pair to the covariate created for it.
Assigned == pc = "assign_returned"

ConfiguredPairs == {configuration[k] : k \in 1..Len(configuration)}

\* the covariate appended at position k was created for the pair p
CreatedFor(k, p) ==
    model_context.covariates[k] = Covariate(p[1], p[2], k)

\* the pair the covariate at position k was created for
PairOf(k) ==
    CHOOSE p \in CovariateIds \X Transformations : CreatedFor(k, p)

Appended == 1..Len(model_context.covariates)

C22_OneCovariatePerPair ==
    Assigned =>
        /\ \A k \in Appended : \E p \in ConfiguredPairs : CreatedFor(k, p)
        /\ \A p \in ConfiguredPairs :
              Cardinality({k \in Appended : CreatedFor(k, p)}) = 1
        /\ \A i, j \in Appended :
              (i < j /\ PairOf(i)[1] = PairOf(j)[1]) =>
                  /\ PairOf(i)[2] < PairOf(j)[2]
                  /\ \A k \in i..j : PairOf(k)[1] = PairOf(i)[1]
        /\ DOMAIN covariate_map = ConfiguredPairs
        /\ \A p \in ConfiguredPairs :
              \E k \in Appended :
                  /\ CreatedFor(k, p)
                  /\ covariate_map[p] = model_context.covariates[k]

\* a pair listed twice, transformations listed in decreasing order, two ids
C22_Witness ==
    /\ Assigned
    /\ configuration = << <<26, 3>>, <<57, 1>>, <<26, 3>> >>
    /\ Len(model_context.covariates) = 2

\* C23 as stated: the flags of fcn_nh.py have the reversed boolean sense of the
\* flags of builder.py, and fcn_nh.py raises on a table where builder.py does not
\* (or the reverse) or averages other rows into the both stratum.
C23_Divergent ==
    Generated =>
        LET nh == fcn_nh_compute_covariate_age_time_dimensions(covariates)
        IN  /\ nh.age_2d = ~covar_at_dims.age_1d
            /\ nh.time_2d = ~covar_at_dims.time_1d

\* C23 amended: on every CovariateTable the flags of fcn_nh.py (age_2d, time_2d)
\* have the values of the flags of builder.py (age_1d, time_1d), fcn_nh.py raises
\* exactly when builder.py raises and with the same kind of error, and it builds
\* the same interpolators, the one of the both stratum included, from the same
\* averaged rows.
C23_SameMatcher ==
    Generated =>
        LET nh == fcn_nh_compute_covariate_age_time_dimensions(covariates)
            g == generate_covariate_interpolators(covariates, nh)
        IN  /\ nh.age_2d = covar_at_dims.age_1d
            /\ nh.time_2d = covar_at_dims.time_1d
            /\ g.err = err
            /\ g.err = "none" => g.interpolators = interpolators
            /\ SexSet = {female, male} =>
                  fcn_nh_covariates_both(covariates) = Strata(covariates)[3]

\* a table split by sex whose both stratum is averaged from merged rows
C23_Witness ==
    /\ pc = "interpolators"
    /\ SexSet = {female, male}
    /\ Strata(covariates)[3] # {}
    /\ generate_covariate_interpolators(covariates,
           fcn_nh_compute_covariate_age_time_dimensions(covariates)).interpolators[both]
         = interpolators[both]
    /\ interpolators[both] # interpolators[female]

\* C24: with metadata that holds one row per age group id, an input row whose
\* sex_id is none of 1, 2, 3 is neither dropped nor passed through: the call
\* raises the input-data error of a missing age group and returns no table, and
\* when no age group id of the input is missing from the metadata the set of
\* missing age groups the error reports is empty.
UnknownSexRows ==
    {i \in 1..Len(with_ids_df) : with_ids_df[i].sex_id \notin {1, 2, 3}}

C24_UnknownSexRaises ==
    (ConvertEnded /\ OneRowPerId /\ UnknownSexRows # {}) =>
        /\ pc = "convert_raised"
        /\ err = "input_data"
        /\ dropped = <<>>
        /\ MissingAgeGroups = {} => missing = {}

\* a row of known sex and a row of unknown sex, every age group id in the metadata
C24_Witness ==
    /\ pc = "convert_raised"
    /\ OneRowPerId
    /\ Len(with_ids_df) = 2
    /\ Cardinality(UnknownSexRows) = 1
    /\ MissingAgeGroups = {}
    /\ err = "input_data"
    /\ missing = {}

\* C25: the interpolators of the three sex categories are built before any record
\* is evaluated, so whether the call raises the sex-coverage or the
\* degenerate-domain error is decided by the CovariateTable alone: it raises one of
\* them exactly when the sex codes of the table are neither {0} nor {-0.5, 0.5} or
\* the table has one age range and one time range, whatever the RecordTable, and no
\* value has been computed when it raises.
SexOrDomainError == err \in {"unsupported_sex", "degenerate"}

TableRaises ==
    \/ ~(SexSet = {both} \/ SexSet = {female, male})
    \/ OneAgeOneTime

C25_ErrorFromTableAlone ==
    /\ Generated => (SexOrDomainError <=> TableRaises)
    /\ SexOrDomainError => pc = "raised" /\ cov_col = <<>> /\ covariate_column = <<>>
    /\ pc \in {"age_interval", "returned"} => ~TableRaises

\* only female records, which need the female interpolator alone, and a table of
\* female rows alone: the call raises all the same
C25_Witness ==
    /\ pc = "raised"
    /\ err = "unsupported_sex"
    /\ SexSet = {female}
    /\ Len(measurements) = 2
    /\ \A i \in 1..Len(measurements) : measurements[i].x_sex = female

====
